---- MODULE Spec2Model ----
(***************************************************************************)
(* Mindwell: the response engine (chatbot.js), the local data store with   *)
(* its streak and mood statistics (DataManager) and the code that calls    *)
(* them, as state machines.                                                *)
(***************************************************************************)
EXTENDS Integers, Sequences, FiniteSets, TLC

VARIABLES
    currentLanguage,   \* MentalHealthChatbot.currentLanguage
    recentTopics,      \* MentalHealthChatbot.conversationContext.recentTopics
    userMessage,       \* the last call of generateResponse: its text, and the language set then
    response,          \* what that call returned
    lookup,            \* the last call of getTranslation: its key, and the language set then
    lookupResult,      \* what that call returned
    inputs             \* the texts handed to generateResponse so far, in call order

VARIABLES
    localStorage,      \* the five items of the browser's storage that DataManager owns
    now,               \* Date.now(), in hours
    outcome,           \* the last DataManager call: its name, whether it threw, what it returned
    importText,        \* the text handed to that call, when it was importData
    stats,             \* what the last getMoodStats returned, for the mood log as it is
    returned,          \* the record the last call returned, when it was one that adds a record
    trend              \* what the last getMoodTrend returned, for the mood log as it is

VARIABLES
    appLanguage,       \* the item 'app-language' of the browser's storage
    currentSection,    \* MentalHealthApp.currentSection
    timers,            \* the texts whose reply waits for its setTimeout of sendMessage
    chatInput          \* the text in the chat input

chatVars ==
    <<currentLanguage, recentTopics, userMessage, response, lookup, lookupResult, inputs>>

storeVars == <<localStorage, now, outcome, importText, stats, returned, trend>>

appVars == <<appLanguage, currentSection, timers, chatInput>>

vars == <<chatVars, storeVars, appVars>>

(***************************************************************************)
(* Strings: String.prototype.toLowerCase, trim, includes, split.           *)
(***************************************************************************)
UpperCaseLetters == "ABCDEFGHIJKLMNOPQRSTUVWXYZ"

LowerCaseLetters == "abcdefghijklmnopqrstuvwxyz"

WhiteSpace == {" ", "\t", "\n"}

CharAt(s, i) == SubSeq(s, i, i)

lowerChar(c) ==
    IF \E i \in 1..Len(UpperCaseLetters) : CharAt(UpperCaseLetters, i) = c
    THEN LET i == CHOOSE j \in 1..Len(UpperCaseLetters) : CharAt(UpperCaseLetters, j) = c
         IN CharAt(LowerCaseLetters, i)
    ELSE c

RECURSIVE toLowerCase(_)
toLowerCase(s) ==
    IF Len(s) = 0 THEN ""
    ELSE lowerChar(CharAt(s, 1)) \o toLowerCase(SubSeq(s, 2, Len(s)))

RECURSIVE trimStart(_)
trimStart(s) ==
    IF Len(s) > 0 /\ CharAt(s, 1) \in WhiteSpace
    THEN trimStart(SubSeq(s, 2, Len(s)))
    ELSE s

RECURSIVE trimEnd(_)
trimEnd(s) ==
    IF Len(s) > 0 /\ CharAt(s, Len(s)) \in WhiteSpace
    THEN trimEnd(SubSeq(s, 1, Len(s) - 1))
    ELSE s

trim(s) == trimEnd(trimStart(s))

includes(s, keyword) ==
    \E i \in 1..(Len(s) - Len(keyword) + 1) : SubSeq(s, i, i + Len(keyword) - 1) = keyword

\* key.split('.'): the segments between the dots, empty ones included.
RECURSIVE split(_, _)
split(s, acc) ==
    IF Len(s) = 0 THEN <<acc>>
    ELSE IF CharAt(s, 1) = "."
         THEN <<acc>> \o split(SubSeq(s, 2, Len(s)), "")
         ELSE split(SubSeq(s, 2, Len(s)), acc \o CharAt(s, 1))

(***************************************************************************)
(* The crisis phrases and the intent taxonomy, in their declared order.    *)
(***************************************************************************)
crisisKeywords ==
    << "suicide", "kill myself", "end it all", "not worth living",
       "hurt myself", "self harm", "cutting", "overdose",
       "emergency", "crisis", "help me", "can't go on" >>

intents ==
    << [intent |-> "greeting",
        keywords |-> <<"hello", "hi", "hey", "good morning", "good afternoon", "good evening">>],
       [intent |-> "mood_sharing",
        keywords |-> <<"feeling", "feel", "mood", "sad", "happy", "angry", "anxious",
                       "depressed", "excited", "worried">>],
       [intent |-> "anxiety",
        keywords |-> <<"anxious", "anxiety", "worried", "worry", "nervous", "panic",
                       "overwhelmed", "stressed">>],
       [intent |-> "depression",
        keywords |-> <<"depressed", "sad", "down", "hopeless", "empty", "worthless", "suicidal">>],
       [intent |-> "stress",
        keywords |-> <<"stressed", "stress", "pressure", "overwhelmed", "burnout", "tired">>],
       [intent |-> "sleep",
        keywords |-> <<"sleep", "insomnia", "tired", "exhausted", "rest">>],
       [intent |-> "relationships",
        keywords |-> <<"relationship", "partner", "family", "friend", "lonely", "isolated">>],
       [intent |-> "self_care",
        keywords |-> <<"self care", "self-care", "care for myself", "treat myself">>],
       [intent |-> "cbt_help",
        keywords |-> <<"cbt", "cognitive", "thoughts", "thinking", "negative thoughts">>],
       [intent |-> "breathing",
        keywords |-> <<"breathing", "breathe", "calm down", "relax">>],
       [intent |-> "mindfulness",
        keywords |-> <<"mindful", "mindfulness", "meditation", "present">>],
       [intent |-> "gratitude",
        keywords |-> <<"grateful", "gratitude", "thankful", "appreciate">>],
       [intent |-> "coping",
        keywords |-> <<"cope", "coping", "deal with", "handle">>],
       [intent |-> "progress",
        keywords |-> <<"progress", "improvement", "better", "getting better">>],
       [intent |-> "resources",
        keywords |-> <<"help", "resources", "support", "crisis">>] >>

\* keywords.some(keyword => message.includes(keyword))
someIncluded(keywords, message) ==
    \E k \in 1..Len(keywords) : includes(message, keywords[k])

\* A crisis test that knows 'suicidal' too.
isCrisisMessageWithSuicidal(message) ==
    someIncluded(crisisKeywords \o <<"suicidal">>, message)

isCrisisMessage(message) == someIncluded(crisisKeywords, message)

\* for (const [intent, keywords] of Object.entries(intents)): the first entry, from
\* the i-th on, one of whose keywords the message includes.
RECURSIVE recognizeFrom(_, _)
recognizeFrom(i, message) ==
    IF i > Len(intents) THEN "general"
    ELSE IF someIncluded(intents[i].keywords, message) THEN intents[i].intent
    ELSE recognizeFrom(i + 1, message)

\* A recognizer that keeps the last entry that matches instead of the first.
recognizeLastMatch(message) ==
    LET matching == {i \in 1..Len(intents) : someIncluded(intents[i].keywords, message)}
    IN IF matching = {} THEN "general"
       ELSE intents[CHOOSE i \in matching : \A j \in matching : j <= i].intent

recognizeIntent(message) == recognizeFrom(1, message)

(***************************************************************************)
(* JavaScript values met while a key is looked up in the translation       *)
(* table: the table of a language, one of its arrays, a literal of an      *)
(* array, a character, a number, a built-in function inherited from a      *)
(* prototype, undefined.  A literal is named by where it stands in the     *)
(* source: its language (or "code" for a literal of a handler), its        *)
(* category and its index.                                                 *)
(***************************************************************************)
Undefined == [kind |-> "undefined", lang |-> "", cat |-> "", idx |-> 0]

TableOf(l) == [kind |-> "table", lang |-> l, cat |-> "", idx |-> 0]

PoolOf(l, c) == [kind |-> "pool", lang |-> l, cat |-> c, idx |-> 0]

TextOf(l, c, i) == [kind |-> "text", lang |-> l, cat |-> c, idx |-> i]

CharOf(l, c, i) == [kind |-> "char", lang |-> l, cat |-> c, idx |-> i]

NumberOf(n) == [kind |-> "number", lang |-> "", cat |-> "", idx |-> n]

\* A built-in function; idx is its own length property.
BuiltinOf(name, n) == [kind |-> "builtin", lang |-> "", cat |-> name, idx |-> n]

\* The key string itself, as getTranslation returns it when nothing is found.
KeyOf(key) == [kind |-> "key", lang |-> "", cat |-> key, idx |-> 0]

\* initializeTranslations: the languages that have a table, and the arrays of each.
TableLanguages == {"en", "hi", "mr", "kn"}

Categories == {"greetings", "mood_positive", "mood_negative", "mood_neutral", "general"}

poolLength(l, c) ==
    CASE c = "greetings" -> 4
      [] c = "mood_positive" -> 3
      [] c = "mood_negative" -> 3
      [] c = "mood_neutral" -> 2
      [] c = "general" -> 4

\* The property names every object inherits from Object.prototype that the model
\* follows (there are more: hasOwnProperty, valueOf, ...).
InheritedKeys == {"constructor", "toString"}

Digits == "0123456789"

isDigit(c) == \E i \in 1..Len(Digits) : CharAt(Digits, i) = c

digitValue(c) == (CHOOSE i \in 1..Len(Digits) : CharAt(Digits, i) = c) - 1

\* A canonical array index: decimal digits without a leading zero.
isIndex(k) ==
    /\ Len(k) > 0
    /\ \A i \in 1..Len(k) : isDigit(CharAt(k, i))
    /\ (Len(k) = 1 \/ CharAt(k, 1) # "0")

RECURSIVE indexValue(_)
indexValue(k) ==
    IF Len(k) = 0 THEN 0
    ELSE 10 * indexValue(SubSeq(k, 1, Len(k) - 1)) + digitValue(CharAt(k, Len(k)))

\* An inherited property: a constructor has length 1; toString has length 0, except
\* Number.prototype.toString(radix), which has length 1.
inherited(v, k) ==
    IF k \notin InheritedKeys THEN Undefined
    ELSE IF k = "constructor" THEN BuiltinOf("constructor", 1)
    ELSE BuiltinOf("toString", IF v.kind = "number" THEN 1 ELSE 0)

\* translation[k]: an own property first, then the prototype chain.  Every literal
\* of the tables is longer than 9 characters; of its length only the truth value is read.
getProperty(v, k) ==
    CASE v.kind = "table" ->
           IF k \in Categories THEN PoolOf(v.lang, k) ELSE inherited(v, k)
      [] v.kind = "pool" ->
           IF isIndex(k) /\ indexValue(k) < poolLength(v.lang, v.cat)
           THEN TextOf(v.lang, v.cat, indexValue(k))
           ELSE IF k = "length" THEN NumberOf(poolLength(v.lang, v.cat))
           ELSE inherited(v, k)
      [] v.kind = "text" ->
           IF isIndex(k) /\ indexValue(k) < 10
           THEN CharOf(v.lang, v.cat, v.idx)
           ELSE IF k = "length" THEN NumberOf(10)
           ELSE inherited(v, k)
      [] v.kind = "char" ->
           IF k = "0" THEN v
           ELSE IF k = "length" THEN NumberOf(1)
           ELSE inherited(v, k)
      [] v.kind = "builtin" ->
           IF k = "length" THEN NumberOf(v.idx)
           ELSE IF k = "name" THEN KeyOf(v.cat)
           ELSE inherited(v, k)
      [] v.kind = "number" -> inherited(v, k)
      [] OTHER -> Undefined

\* The truth value of a JavaScript value.
truthy(v) ==
    CASE v.kind = "undefined" -> FALSE
      [] v.kind = "number" -> v.idx # 0
      [] v.kind = "key" -> Len(v.cat) > 0
      [] OTHER -> TRUE

\* this.translations[languageCode]
translationsOf(languageCode) ==
    IF languageCode \in TableLanguages THEN TableOf(languageCode)
    ELSE inherited(TableOf(""), languageCode)

\* The inner loop: from this.translations.en, every key again; the key string when
\* one is not found.
RECURSIVE fallbackWalk(_, _, _, _)
fallbackWalk(translation, keys, i, key) ==
    IF i > Len(keys) THEN translation
    ELSE IF truthy(translation) /\ truthy(getProperty(translation, keys[i]))
         THEN fallbackWalk(getProperty(translation, keys[i]), keys, i + 1, key)
         ELSE KeyOf(key)

\* The outer loop over the keys, which leaves for the fallback at the first key the
\* current language does not have.
RECURSIVE translationWalk(_, _, _, _)
translationWalk(translation, keys, i, key) ==
    IF i > Len(keys) THEN translation
    ELSE IF truthy(translation) /\ truthy(getProperty(translation, keys[i]))
         THEN translationWalk(getProperty(translation, keys[i]), keys, i + 1, key)
         ELSE fallbackWalk(translationsOf("en"), keys, 1, key)

getTranslation(language, key) ==
    translationWalk(translationsOf(language), split(key, ""), 1, key)

(***************************************************************************)
(* The replies.  A reply is {text, type, urgent?, techniques?}: urgent is   *)
(* FALSE and techniques is empty where the handler sets none.  The text is  *)
(* the literal chosen; array[Math.floor(Math.random() * array.length)] may  *)
(* choose any element.                                                     *)
(***************************************************************************)
Reply(text, type, urgent, techniques) ==
    [text |-> text, type |-> type, urgent |-> urgent, techniques |-> techniques]

NoResponse == Reply(Undefined, "", FALSE, <<>>)

\* Any element of what getTranslation returned: of an array, one of its literals; of
\* the key string, one of its characters.
anyElement(v) ==
    IF v.kind = "pool"
    THEN {TextOf(v.lang, v.cat, i) : i \in 0..(poolLength(v.lang, v.cat) - 1)}
    ELSE {CharOf(v.lang, v.cat, 0)}

\* Any of the n literals a handler lists in its own body.
codeLiterals(name, n) == {TextOf("code", name, i) : i \in 0..(n - 1)}

RepliesOf(texts, type, urgent, techniques) ==
    {Reply(t, type, urgent, techniques) : t \in texts}

handleCrisisResponse == RepliesOf(codeLiterals("crisis", 1), "crisis", TRUE, <<>>)

handleGreeting(language) ==
    RepliesOf(anyElement(getTranslation(language, "greetings")), "greeting", FALSE, <<>>)

\* A handleMoodSharing that looks for the negative words first.
handleMoodSharingNegativeFirst(language, message) ==
    LET responseType ==
            IF includes(message, "bad") \/ includes(message, "sad")
               \/ includes(message, "terrible") \/ includes(message, "awful")
            THEN "negative"
            ELSE IF includes(message, "good") \/ includes(message, "great")
                    \/ includes(message, "happy") \/ includes(message, "excited")
                 THEN "positive"
                 ELSE "neutral"
    IN RepliesOf(anyElement(getTranslation(language, "mood_" \o responseType)),
                 "mood_response", FALSE, <<>>)

handleMoodSharing(language, message) ==
    LET responseType ==
            IF includes(message, "good") \/ includes(message, "great")
               \/ includes(message, "happy") \/ includes(message, "excited")
            THEN "positive"
            ELSE IF includes(message, "bad") \/ includes(message, "sad")
                    \/ includes(message, "terrible") \/ includes(message, "awful")
                 THEN "negative"
                 ELSE "neutral"
    IN RepliesOf(anyElement(getTranslation(language, "mood_" \o responseType)),
                 "mood_response", FALSE, <<>>)

handleGeneralResponse(language) ==
    RepliesOf(anyElement(getTranslation(language, "general")), "general_support", FALSE, <<>>)

\* The switch of generateResponse.
dispatch(intent, language, message) ==
    CASE intent = "greeting" -> handleGreeting(language)
      [] intent = "mood_sharing" -> handleMoodSharing(language, message)
      [] intent = "anxiety" ->
           RepliesOf(codeLiterals("anxiety", 3), "anxiety_support", FALSE,
                     <<"breathing", "grounding">>)
      [] intent = "depression" ->
           RepliesOf(codeLiterals("depression", 3), "depression_support", FALSE,
                     <<"behavioral_activation", "self_compassion">>)
      [] intent = "stress" ->
           RepliesOf(codeLiterals("stress", 3), "stress_support", FALSE,
                     <<"progressive_relaxation", "mindfulness">>)
      [] intent = "sleep" ->
           RepliesOf(codeLiterals("sleep", 3), "sleep_support", FALSE,
                     <<"sleep_hygiene", "breathing">>)
      [] intent = "relationships" ->
           RepliesOf(codeLiterals("relationships", 3), "relationship_support", FALSE, <<>>)
      [] intent = "self_care" ->
           RepliesOf(codeLiterals("self_care", 3), "self_care_support", FALSE, <<>>)
      [] intent = "cbt_help" ->
           RepliesOf(codeLiterals("cbt_help", 1), "cbt_technique", FALSE,
                     <<"thought_challenging">>)
      [] intent = "breathing" ->
           RepliesOf(codeLiterals("breathing", 3), "breathing_exercise", FALSE, <<>>)
      [] intent = "mindfulness" ->
           RepliesOf(codeLiterals("mindfulness", 1), "mindfulness_practice", FALSE,
                     <<"grounding">>)
      [] intent = "gratitude" ->
           RepliesOf(codeLiterals("gratitude", 3), "gratitude_practice", FALSE, <<>>)
      [] intent = "coping" ->
           RepliesOf(codeLiterals("coping", 1), "coping_strategies", FALSE, <<>>)
      [] intent = "progress" ->
           RepliesOf(codeLiterals("progress", 3), "progress_celebration", FALSE, <<>>)
      [] intent = "resources" ->
           RepliesOf(codeLiterals("resources", 1), "resources_info", FALSE, <<>>)
      [] OTHER -> handleGeneralResponse(language)

\* A generateResponse that looks for an intent first and for a crisis phrase only
\* when there is none.
generateResponseIntentFirst(language, text) ==
    LET message == trim(toLowerCase(text))
    IN IF recognizeIntent(message) # "general"
       THEN dispatch(recognizeIntent(message), language, message)
       ELSE IF isCrisisMessage(message) THEN handleCrisisResponse
       ELSE handleGeneralResponse(language)

\* A generateResponse that gives the general reply of the language to every text
\* without a crisis phrase.
generateResponseAlwaysGeneral(language, text) ==
    LET message == trim(toLowerCase(text))
    IN IF isCrisisMessage(message)
       THEN handleCrisisResponse
       ELSE handleGeneralResponse(language)

\* What generateResponse may return for a text, in a language.
generateResponse(language, text) ==
    LET message == trim(toLowerCase(text))
    IN IF isCrisisMessage(message)
       THEN handleCrisisResponse
       ELSE dispatch(recognizeIntent(message), language, message)

\* An updateContext that forgets the newest text once there are more than five.
updateContextDroppingNewest(topics, text) ==
    LET pushed == Append(topics, text)
    IN IF Len(pushed) > 5 THEN SubSeq(pushed, 1, 5) ELSE pushed

\* recentTopics.push(message), and shift() once there are more than five.
updateContext(topics, text) ==
    LET pushed == Append(topics, text)
    IN IF Len(pushed) > 5 THEN Tail(pushed) ELSE pushed

(***************************************************************************)
(* The clock and the local calendar.  new Date(t).toDateString() names the  *)
(* local calendar day of the instant t; the days are numbered, and the day  *)
(* after day 0 is the one on which the clocks go forward: it has 23 hours.  *)
(***************************************************************************)
MaxDay == 3

dayLength(d) == IF d = 1 THEN 23 ELSE 24

RECURSIVE dayStart(_)
dayStart(d) == IF d <= 0 THEN 24 * d ELSE dayStart(d - 1) + dayLength(d - 1)

dayOf(t) ==
    IF t < 0 THEN -(((-t) + 23) \div 24)
    ELSE CHOOSE d \in 0..(t \div 23) : dayStart(d) <= t /\ t < dayStart(d + 1)

toDateString(t) == "D" \o ToString(dayOf(t))

toISOString(t) == "T" \o ToString(t)

\* The instants at which the model looks: the first hour and noon of each day.
Instants == {dayStart(d) + h : d \in 0..MaxDay, h \in {0, 12}}

(***************************************************************************)
(* The values kept in storage.  A value carries its kind: "array" or        *)
(* "object" as the code writes it; a bundle may also bring a "string", a    *)
(* number too large for a double ("huge": Infinity once parsed, null once   *)
(* written again) or a false value ("null").                               *)
(***************************************************************************)
LogOf(kind, items) == [kind |-> kind, items |-> items]

EmptyLog == LogOf("array", <<>>)

PreferencesOf(dailyReminders, moodReminders, theme, notifications) ==
    [kind |-> "object", dailyReminders |-> dailyReminders, moodReminders |-> moodReminders,
     theme |-> theme, notifications |-> notifications]

defaultPreferences == PreferencesOf(TRUE, TRUE, "light", TRUE)

NoDate == "null"

StreakOf(kind, currentStreak, longestStreak, lastCheckIn) ==
    [kind |-> kind, currentStreak |-> currentStreak, longestStreak |-> longestStreak,
     lastCheckIn |-> lastCheckIn]

defaultStreak == StreakOf("object", 0, 0, NoDate)

\* JSON.stringify, then JSON.parse at the next read: Infinity is written as null.
stringify(data) == IF data.kind = "huge" THEN [data EXCEPT !.kind = "null"] ELSE data

\* Whether a value counts as true in a condition.
isTruthy(data) == data.kind # "null"

Item(data) == [has |-> TRUE, val |-> data]

NoItem(filler) == [has |-> FALSE, val |-> filler]

storageKeys == {"chatHistory", "moodData", "checkIns", "userPreferences", "streakData"}

\* A storage without the five items.
emptyStorage ==
    [chatHistory |-> NoItem(EmptyLog), moodData |-> NoItem(EmptyLog),
     checkIns |-> NoItem(EmptyLog), userPreferences |-> NoItem(defaultPreferences),
     streakData |-> NoItem(defaultStreak)]

\* getData: the parsed item, or the default when there is none or it does not parse.
getData(storage, key, defaultValue) ==
    IF storage[key].has /\ storage[key].val.kind # "corrupt"
    THEN storage[key].val
    ELSE defaultValue

\* saveData: the storage after setItem, which may fail (the quota); the storage is
\* then as before, and saveData returns false.
saveData(storage, key, data, fails) ==
    IF fails THEN storage ELSE [storage EXCEPT ![key] = Item(stringify(data))]

getChatHistory(storage) == getData(storage, "chatHistory", EmptyLog)

getMoodData(storage) == getData(storage, "moodData", EmptyLog)

getCheckIns(storage) == getData(storage, "checkIns", EmptyLog)

getPreferences(storage) == getData(storage, "userPreferences", defaultPreferences)

getStreakData(storage) == getData(storage, "streakData", defaultStreak)

\* initializeData: the defaults are written where a read gives nothing true.
initializeData(storage, fails) ==
    LET first == IF ~isTruthy(getData(storage, "userPreferences", [kind |-> "null"]))
                 THEN saveData(storage, "userPreferences", defaultPreferences, fails[1])
                 ELSE storage
    IN IF ~isTruthy(getData(first, "streakData", [kind |-> "null"]))
       THEN saveData(first, "streakData", defaultStreak, fails[2])
       ELSE first

\* generateId: the time, then random digits.
generateId(t, random) == ToString(t) \o random

(***************************************************************************)
(* DataManager's operations as functions of the storage.  A call that       *)
(* throws leaves the storage as the writes before the throw made it.        *)
(***************************************************************************)
Result(storage, threw) == [storage |-> storage, threw |-> threw]

\* {id: generateId(), ...message, timestamp: new Date().toISOString()}
newChatMessage(message, t, random) ==
    [id |-> generateId(t, random), sender |-> message.sender, text |-> message.text,
     timestamp |-> toISOString(t)]

\* An addChatMessage that puts the new record first.
addChatMessageFirst(storage, message, t, random, fails) ==
    LET chatHistory == getChatHistory(storage)
    IN IF chatHistory.kind # "array" THEN Result(storage, TRUE)
       ELSE Result(saveData(storage, "chatHistory",
                            LogOf("array", <<newChatMessage(message, t, random)>>
                                               \o chatHistory.items),
                            fails),
                   FALSE)

\* addChatMessage: push throws on what is no array.
addChatMessage(storage, message, t, random, fails) ==
    LET chatHistory == getChatHistory(storage)
    IN IF chatHistory.kind # "array" THEN Result(storage, TRUE)
       ELSE Result(saveData(storage, "chatHistory",
                            LogOf("array", Append(chatHistory.items,
                                                  newChatMessage(message, t, random))),
                            fails),
                   FALSE)

clearChatHistory(storage, fails) == saveData(storage, "chatHistory", EmptyLog, fails)

newMoodEntry(moodData, t, random) ==
    [id |-> generateId(t, random), mood |-> moodData.mood, notes |-> moodData.notes,
     timestamp |-> toISOString(t), date |-> toDateString(t)]

\* An addMoodEntry that keeps the newest entry alone.
addMoodEntryLatestOnly(storage, moodData, t, random, fails) ==
    LET moodHistory == getMoodData(storage)
    IN IF moodHistory.kind # "array" THEN Result(storage, TRUE)
       ELSE Result(saveData(storage, "moodData",
                            LogOf("array", <<newMoodEntry(moodData, t, random)>>), fails),
                   FALSE)

addMoodEntry(storage, moodData, t, random, fails) ==
    LET moodHistory == getMoodData(storage)
    IN IF moodHistory.kind # "array" THEN Result(storage, TRUE)
       ELSE Result(saveData(storage, "moodData",
                            LogOf("array", Append(moodHistory.items,
                                                  newMoodEntry(moodData, t, random))),
                            fails),
                   FALSE)

newCheckIn(checkInData, t, random) ==
    [id |-> generateId(t, random), dayRating |-> checkInData.dayRating,
     positiveThings |-> checkInData.positiveThings, challenges |-> checkInData.challenges,
     gratitude |-> checkInData.gratitude, tomorrowFocus |-> checkInData.tomorrowFocus,
     timestamp |-> toISOString(t), date |-> toDateString(t)]

max(a, b) == IF a >= b THEN a ELSE b

\* The streak updateStreak writes on a day without a check-in yet.
streakAfter(streakData, today, yesterday) ==
    LET currentStreak ==
            IF streakData.lastCheckIn = yesterday \/ streakData.currentStreak = 0
            THEN streakData.currentStreak + 1
            ELSE 1
    IN StreakOf("object", currentStreak, max(streakData.longestStreak, currentStreak), today)

\* updateStreak without its first test, the one of a check-in made today.
updateStreakEveryCall(storage, t, fails) ==
    LET streakData == getStreakData(storage)
    IN IF streakData.kind # "object" THEN Result(storage, TRUE)
       ELSE Result(saveData(storage, "streakData",
                            streakAfter(streakData, toDateString(t), toDateString(t - 24)),
                            fails),
                   FALSE)

\* updateStreak: today and yesterday are the calendar days of now and of 24 hours
\* before now.  Reading a property of null throws, and so does setting one on a
\* string (the class body is strict code).
updateStreak(storage, t, fails) ==
    LET streakData == getStreakData(storage)
        today == toDateString(t)
        yesterday == toDateString(t - 24)
    IN IF streakData.kind # "object" THEN Result(storage, TRUE)
       ELSE IF streakData.lastCheckIn = today THEN Result(storage, FALSE)
       ELSE Result(saveData(storage, "streakData",
                            streakAfter(streakData, today, yesterday), fails),
                   FALSE)

\* addCheckIn: the record is written, then the streak is updated.
addCheckIn(storage, checkInData, t, random, fails) ==
    LET checkIns == getCheckIns(storage)
    IN IF checkIns.kind # "array" THEN Result(storage, TRUE)
       ELSE updateStreak(saveData(storage, "checkIns",
                                  LogOf("array", Append(checkIns.items,
                                                        newCheckIn(checkInData, t, random))),
                                  fails[1]),
                         t, fails[2])

\* An updatePreferences that writes the default streak as well.
updatePreferencesResettingStreak(storage, newPreferences, fails) ==
    saveData(saveData(storage, "userPreferences",
                      [getPreferences(storage) EXCEPT ![newPreferences.name] = newPreferences.value],
                      fails),
             "streakData", defaultStreak, FALSE)

\* updatePreferences: {...currentPreferences, ...newPreferences}, with the one
\* property the settings page sets at a time.
updatePreferences(storage, newPreferences, fails) ==
    saveData(storage, "userPreferences",
             [getPreferences(storage) EXCEPT ![newPreferences.name] = newPreferences.value],
             fails)

(***************************************************************************)
(* Export and import.  A text handed to importData is no JSON ("invalid"), *)
(* the JSON null, another JSON value that is no object ("scalar"), or an   *)
(* object, of which the seven properties of a bundle are followed: each is *)
(* there or not, and has a value.                                          *)
(***************************************************************************)
Scalar(kind, text) == [kind |-> kind, text |-> text]

\* Whether version or exportDate counts as true: not "", 0, false, null.
scalarTruthy(v) ==
    CASE v.kind = "string" -> v.text # ""
      [] v.kind = "number" -> v.text # "0"
      [] v.kind = "true" -> TRUE
      [] OTHER -> FALSE

Bundle(syntax, version, exportDate, chatHistory, moodData, checkIns, preferences, streakData) ==
    [syntax |-> syntax, version |-> version, exportDate |-> exportDate,
     chatHistory |-> chatHistory, moodData |-> moodData, checkIns |-> checkIns,
     preferences |-> preferences, streakData |-> streakData]

Absent == NoItem(Scalar("null", ""))

\* exportAllData with the mood log and the check-ins under each other's name.
exportAllDataSwapped(storage, t) ==
    Bundle("object", Item(Scalar("string", "1.0")), Item(Scalar("string", toISOString(t))),
           Item(stringify(getChatHistory(storage))), Item(stringify(getCheckIns(storage))),
           Item(stringify(getMoodData(storage))), Item(stringify(getPreferences(storage))),
           Item(stringify(getStreakData(storage))))

\* exportAllData: what the getters return, under version '1.0' and the time.
exportAllData(storage, t) ==
    Bundle("object", Item(Scalar("string", "1.0")), Item(Scalar("string", toISOString(t))),
           Item(stringify(getChatHistory(storage))), Item(stringify(getMoodData(storage))),
           Item(stringify(getCheckIns(storage))), Item(stringify(getPreferences(storage))),
           Item(stringify(getStreakData(storage))))

\* A step of importData that removes the item for which the bundle holds no value.
importOneOrRemove(storage, field, key, fails) ==
    IF field.has /\ isTruthy(field.val)
    THEN saveData(storage, key, field.val, key \in fails)
    ELSE [storage EXCEPT ![key] = emptyStorage[key]]

\* if (data.x) this.saveData(key, data.x)
importOne(storage, field, key, fails) ==
    IF field.has /\ isTruthy(field.val)
    THEN saveData(storage, key, field.val, key \in fails)
    ELSE storage

\* The five tests and writes of importData, in their order; fails is the set of
\* keys whose write fails.
importEach(storage, jsonData, fails) ==
    LET s1 == importOne(storage, jsonData.chatHistory, "chatHistory", fails)
        s2 == importOne(s1, jsonData.moodData, "moodData", fails)
        s3 == importOne(s2, jsonData.checkIns, "checkIns", fails)
        s4 == importOne(s3, jsonData.preferences, "userPreferences", fails)
    IN importOne(s4, jsonData.streakData, "streakData", fails)

\* A test of the structure that asks only for the two properties to be there.
validBundleByPresence(jsonData) ==
    /\ jsonData.syntax = "object"
    /\ jsonData.version.has
    /\ jsonData.exportDate.has

\* Whether importData gets past its test of the structure: what is no JSON makes
\* JSON.parse throw, null makes the read of its version throw, and a value without
\* a true version and a true exportDate makes importData throw.
validBundle(jsonData) ==
    /\ jsonData.syntax = "object"
    /\ jsonData.version.has /\ scalarTruthy(jsonData.version.val)
    /\ jsonData.exportDate.has /\ scalarTruthy(jsonData.exportDate.val)

\* importData with the test of the structure after the writes.
importDataTestingLast(storage, jsonData, fails) ==
    [storage |-> IF jsonData.syntax = "object" THEN importEach(storage, jsonData, fails)
                 ELSE storage,
     ok |-> validBundle(jsonData)]

\* importData: the storage after it, and what it returns.
importData(storage, jsonData, fails) ==
    IF validBundle(jsonData)
    THEN [storage |-> importEach(storage, jsonData, fails), ok |-> TRUE]
    ELSE [storage |-> storage, ok |-> FALSE]

\* A clearAllData that removes nothing before initializeData.
clearAllDataWithoutRemoval(storage, fails) == initializeData(storage, fails)

\* clearAllData: the five items are removed, then initializeData.
clearAllData(storage, fails) == initializeData(emptyStorage, fails)

(***************************************************************************)
(* getMoodStats.  The means are compared as fractions: with sums sr, sp and  *)
(* lengths lr, lp, sr/lr > sp/lp + 0.5 is 2*sr*lp > 2*sp*lr + lr*lp.        *)
(***************************************************************************)
\* Array.prototype.slice(start, end) with negative indices; end 0 stands for none.
slice(items, start, end) ==
    LET len == Len(items)
        from == IF start < 0 THEN max(len + start, 0) ELSE IF start > len THEN len ELSE start
        to == IF end = 0 THEN len ELSE max(len + end, 0)
    IN IF from >= to THEN <<>> ELSE SubSeq(items, from + 1, to)

RECURSIVE sum(_)
sum(items) == IF items = <<>> THEN 0 ELSE Head(items).mood + sum(Tail(items))

best(items) == CHOOSE m \in {items[i].mood : i \in 1..Len(items)} :
                   \A i \in 1..Len(items) : items[i].mood <= m

worst(items) == CHOOSE m \in {items[i].mood : i \in 1..Len(items)} :
                    \A i \in 1..Len(items) : items[i].mood >= m

\* The average in tenths, cut after the first decimal.
truncatedAverage(items) == (10 * sum(items)) \div Len(items)

\* Math.round(average * 10), the average in tenths.
roundedAverage(items) == (20 * sum(items) + Len(items)) \div (2 * Len(items))

StatsOf(average, bestMood, worstMood, totalDays, recentTrend) ==
    [kind |-> "stats", average |-> average, best |-> bestMood, worst |-> worstMood,
     totalDays |-> totalDays, recentTrend |-> recentTrend]

NoStats == [kind |-> "none"]

StatsThrew == [kind |-> "threw"]

\* getMoodStats with windows of the given length and the given least number of
\* entries in each.
moodStatsWith(storage, window, least) ==
    LET moodHistory == getMoodData(storage)
        items == moodHistory.items
        recentMoods == slice(items, -window, 0)
        previousMoods == slice(items, -(2 * window), -window)
        lr == Len(recentMoods)
        lp == Len(previousMoods)
        recentTrend ==
            IF lr >= least /\ lp >= least
            THEN IF 2 * sum(recentMoods) * lp > 2 * sum(previousMoods) * lr + lr * lp
                 THEN "improving"
                 ELSE IF 2 * sum(recentMoods) * lp + lr * lp < 2 * sum(previousMoods) * lr
                      THEN "declining"
                      ELSE "stable"
            ELSE "stable"
    IN IF moodHistory.kind # "array" THEN StatsThrew
       ELSE IF Len(items) = 0 THEN StatsOf(0, 0, 0, 0, "stable")
       ELSE StatsOf(roundedAverage(items), best(items), worst(items), Len(items), recentTrend)

\* The windows cut to three entries.
getMoodStatsShortWindows(storage) == moodStatsWith(storage, 3, 3)

\* One entry in each window taken for enough.
getMoodStatsNoGuard(storage) == moodStatsWith(storage, 7, 1)

getMoodStats(storage) == moodStatsWith(storage, 7, 3)

NoTrend == "none"

TrendThrew == "threw"

\* MoodTracker.getMoodTrend with the given threshold, in fourteenths: the means of
\* the two weeks differ by (recent - previous) / 7.  Of null the length cannot be
\* read; the string a bundle brings is shorter than 7 characters.
moodTrendWith(storage, threshold) ==
    LET moodData == getMoodData(storage)
        recentWeek == slice(moodData.items, -7, 0)
        previousWeek == slice(moodData.items, -14, -7)
        difference == 2 * (sum(recentWeek) - sum(previousWeek))
    IN IF moodData.kind \notin {"array", "string"} THEN TrendThrew
       ELSE IF moodData.kind = "string" \/ Len(moodData.items) < 7 THEN "insufficient_data"
       ELSE IF Len(previousWeek) < 7 THEN "insufficient_data"
       ELSE IF difference > threshold THEN "improving"
       ELSE IF difference < -threshold THEN "declining"
       ELSE "stable"

\* A threshold of 9/14, above 0.5.
getMoodTrendHighThreshold(storage) == moodTrendWith(storage, 9)

\* A threshold of 5/14, below 0.5.
getMoodTrendLowThreshold(storage) == moodTrendWith(storage, 5)

getMoodTrend(storage) == moodTrendWith(storage, 7)

(***************************************************************************)
(* The store as a state machine: one action for each call of DataManager   *)
(* that the pages make, and the passing of time.                           *)
(***************************************************************************)
\* No record returned: the call returned something else, or threw.
NoRecord == [id |-> ""]

OutcomeOf(op, threw, ok) == [op |-> op, threw |-> threw, ok |-> ok]

NoBundle == Bundle("none", Absent, Absent, Absent, Absent, Absent, Absent, Absent)

\* MentalHealthChatbot as constructed.
ChatInit ==
    /\ currentLanguage = "en"
    /\ recentTopics = <<>>
    /\ inputs = <<>>
    /\ userMessage = [text |-> "", language |-> ""]
    /\ response = NoResponse
    /\ lookup = [key |-> "", language |-> ""]
    /\ lookupResult = Undefined

\* MentalHealthApp as constructed: the chat section, and the saved language, or
\* 'en', set by changeLanguage.
AppInit ==
    /\ appLanguage = Item("en")
    /\ currentSection = "chat"
    /\ timers = <<>>
    /\ chatInput = ""

StoreInit ==
    /\ localStorage = initializeData(emptyStorage, <<FALSE, FALSE>>)
    /\ now = 0
    /\ outcome = OutcomeOf("constructor", FALSE, TRUE)
    /\ importText = NoBundle
    /\ stats = NoStats
    /\ trend = NoTrend
    /\ returned = NoRecord

\* A page is loaded: new DataManager().
Construct(fails) ==
    /\ localStorage' = initializeData(localStorage, fails)
    /\ outcome' = OutcomeOf("constructor", FALSE, TRUE)
    /\ importText' = NoBundle
    /\ stats' = NoStats
    /\ trend' = NoTrend
    /\ returned' = NoRecord
    /\ UNCHANGED <<now, chatVars, appVars>>

Tick(t) ==
    /\ t > now
    /\ now' = t
    /\ UNCHANGED <<localStorage, outcome, importText, stats, returned, trend, chatVars,
                   appVars>>

AddChatMessage(message, random, fails) ==
    LET result == addChatMessage(localStorage, message, now, random, fails)
    IN /\ localStorage' = result.storage
       /\ outcome' = OutcomeOf("addChatMessage", result.threw, ~result.threw)
       /\ importText' = NoBundle
       /\ stats' = NoStats
       /\ trend' = NoTrend
       /\ returned' = IF result.threw THEN NoRecord
                      ELSE newChatMessage(message, now, random)
       /\ UNCHANGED <<now, chatVars, appVars>>

ClearChatHistory(fails) ==
    /\ localStorage' = clearChatHistory(localStorage, fails)
    /\ outcome' = OutcomeOf("clearChatHistory", FALSE, TRUE)
    /\ importText' = NoBundle
    /\ stats' = NoStats
    /\ trend' = NoTrend
    /\ returned' = NoRecord
    /\ UNCHANGED <<now, chatVars, appVars>>

AddMoodEntry(moodData, random, fails) ==
    LET result == addMoodEntry(localStorage, moodData, now, random, fails)
    IN /\ localStorage' = result.storage
       /\ outcome' = OutcomeOf("addMoodEntry", result.threw, ~result.threw)
       /\ importText' = NoBundle
       /\ stats' = NoStats
       /\ trend' = NoTrend
       /\ returned' = IF result.threw THEN NoRecord
                      ELSE newMoodEntry(moodData, now, random)
       /\ UNCHANGED <<now, chatVars, appVars>>

GetMoodStats ==
    /\ stats' = getMoodStats(localStorage)
    /\ returned' = NoRecord
    /\ outcome' = OutcomeOf("getMoodStats", stats'.kind = "threw", stats'.kind = "stats")
    /\ importText' = NoBundle
    /\ UNCHANGED <<localStorage, now, trend, chatVars, appVars>>

\* MoodTracker.getMoodTrend is called.
GetMoodTrend ==
    /\ trend' = getMoodTrend(localStorage)
    /\ returned' = NoRecord
    /\ outcome' = OutcomeOf("getMoodTrend", trend' = TrendThrew, trend' # TrendThrew)
    /\ importText' = NoBundle
    /\ UNCHANGED <<localStorage, now, stats, chatVars, appVars>>

AddCheckIn(checkInData, random, fails) ==
    LET result == addCheckIn(localStorage, checkInData, now, random, fails)
    IN /\ localStorage' = result.storage
       /\ outcome' = OutcomeOf("addCheckIn", result.threw, ~result.threw)
       /\ importText' = NoBundle
       /\ stats' = NoStats
       /\ trend' = NoTrend
       /\ returned' = IF result.threw THEN NoRecord
                      ELSE newCheckIn(checkInData, now, random)
       /\ UNCHANGED <<now, chatVars, appVars>>

UpdatePreferences(newPreferences, fails) ==
    /\ localStorage' = updatePreferences(localStorage, newPreferences, fails)
    /\ outcome' = OutcomeOf("updatePreferences", FALSE, TRUE)
    /\ importText' = NoBundle
    /\ stats' = NoStats
    /\ trend' = NoTrend
    /\ returned' = NoRecord
    /\ UNCHANGED <<now, chatVars, appVars>>

ImportData(text, fails) ==
    LET result == importData(localStorage, text, fails)
    IN /\ localStorage' = result.storage
       /\ outcome' = OutcomeOf("importData", FALSE, result.ok)
       /\ importText' = text
       /\ stats' = NoStats
       /\ trend' = NoTrend
       /\ returned' = NoRecord
       /\ UNCHANGED <<now, chatVars, appVars>>

\* A bundle is exported and read back at once.
ImportExported(fails) == ImportData(exportAllData(localStorage, now), fails)

ClearAllData(fails) ==
    /\ localStorage' = clearAllData(localStorage, fails)
    /\ outcome' = OutcomeOf("clearAllData", FALSE, TRUE)
    /\ importText' = NoBundle
    /\ stats' = NoStats
    /\ trend' = NoTrend
    /\ returned' = NoRecord
    /\ UNCHANGED <<now, chatVars, appVars>>

(***************************************************************************)
(* The inputs of the store's operations.                                   *)
(***************************************************************************)
MaxMessages == 1

MaxMoods == 1

MaxCheckIns == 1

ChatMessages == {[sender |-> "user", text |-> "Hello"]}

MoodInputs == {[mood |-> 4, notes |-> ""]}

CheckInInputs ==
    {[dayRating |-> 4, positiveThings |-> "", challenges |-> "", gratitude |-> "",
      tomorrowFocus |-> ""]}

Randoms == {"r"}

PreferenceInputs ==
    {[name |-> "theme", value |-> "dark"], [name |-> "theme", value |-> "light"]}

Failures == [1..2 -> BOOLEAN]

\* A check-in of another device, and logs holding it.
foreignCheckIn ==
    [id |-> "9r", dayRating |-> 2, positiveThings |-> "", challenges |-> "",
     gratitude |-> "", tomorrowFocus |-> "", timestamp |-> "T9", date |-> "D9"]

Version == Item(Scalar("string", "1.0"))

ExportDate == Item(Scalar("string", "T9"))

\* The texts handed to importData besides the bundles exported: no JSON, null, a
\* number, '{"foo":1}', bundles lacking version or exportDate or with a false one,
\* and bundles with both: one of data as DataManager writes them, and ones whose
\* data are not.
ImportTexts ==
    { Bundle("invalid", Absent, Absent, Absent, Absent, Absent, Absent, Absent),
      Bundle("null", Absent, Absent, Absent, Absent, Absent, Absent, Absent),
      Bundle("scalar", Absent, Absent, Absent, Absent, Absent, Absent, Absent),
      Bundle("object", Absent, Absent, Absent, Absent, Absent, Absent, Absent),
      Bundle("object", Absent, ExportDate, Item(EmptyLog), Item(EmptyLog), Item(EmptyLog),
             Item(PreferencesOf(FALSE, FALSE, "dark", FALSE)),
             Item(StreakOf("object", 2, 3, "D9"))),
      Bundle("object", Version, Absent, Item(EmptyLog), Item(EmptyLog), Item(EmptyLog),
             Item(PreferencesOf(FALSE, FALSE, "dark", FALSE)),
             Item(StreakOf("object", 2, 3, "D9"))),
      Bundle("object", Item(Scalar("number", "0")), ExportDate, Item(EmptyLog), Absent,
             Absent, Absent, Item(StreakOf("object", 2, 3, "D9"))),
      Bundle("object", Version, ExportDate, Item(EmptyLog), Absent,
             Item(LogOf("array", <<foreignCheckIn>>)), Absent,
             Item(StreakOf("object", 2, 3, "D9"))),
      Bundle("object", Version, ExportDate, Absent, Absent, Absent, Absent,
             Item(StreakOf("object", 5, 2, NoDate))),
      Bundle("object", Version, ExportDate, Item(LogOf("string", <<>>)),
             Item(LogOf("huge", <<>>)), Absent, Absent,
             Item(StreakOf("string", 0, 0, NoDate))),
      Bundle("object", Version, ExportDate, Absent, Item(LogOf("null", <<>>)),
             Item(LogOf("string", <<>>)), Absent, Item(StreakOf("huge", 0, 0, NoDate))) }

logLength(log) == IF log.kind = "array" THEN Len(log.items) ELSE 0

\* The writes of importData that fail: none, the last one, or all.
ImportFailures == {{}, {"streakData"}, storageKeys}

LastDay == 1

Init == ChatInit /\ StoreInit /\ AppInit

\* Every operation of the store, within the first days.
Next ==
    \/ \E d \in 1..LastDay : Tick(dayStart(d))
    \/ \E fails \in Failures : Construct(fails)
    \/ /\ logLength(getChatHistory(localStorage)) < MaxMessages
       /\ \E message \in ChatMessages, random \in Randoms, fails \in BOOLEAN :
              AddChatMessage(message, random, fails)
    \/ \E fails \in BOOLEAN : ClearChatHistory(fails)
    \/ /\ logLength(getMoodData(localStorage)) < MaxMoods
       /\ \E moodData \in MoodInputs, random \in Randoms, fails \in BOOLEAN :
              AddMoodEntry(moodData, random, fails)
    \/ /\ logLength(getCheckIns(localStorage)) < MaxCheckIns
       /\ \E checkInData \in CheckInInputs, random \in Randoms, fails \in Failures :
              AddCheckIn(checkInData, random, fails)
    \/ \E newPreferences \in PreferenceInputs, fails \in BOOLEAN :
           UpdatePreferences(newPreferences, fails)
    \/ \E text \in ImportTexts, fails \in ImportFailures : ImportData(text, fails)
    \/ \E fails \in ImportFailures : ImportExported(fails)
    \/ \E fails \in Failures : ClearAllData(fails)

Spec == Init /\ [][Next]_vars

(***************************************************************************)
(* The check-in journal and the streak alone, over more days and at two    *)
(* hours of each.                                                          *)
(***************************************************************************)
MaxJournal == 2

\* The bundles that bring a streak.
StreakTexts ==
    {text \in ImportTexts :
        text.version.has /\ scalarTruthy(text.version.val) /\ text.exportDate.has
            /\ text.streakData.has}

InitStreak == Init

NextStreak ==
    \/ \E t \in Instants : Tick(t)
    \/ /\ logLength(getCheckIns(localStorage)) < MaxJournal
       /\ \E checkInData \in CheckInInputs, random \in Randoms, fails \in Failures :
              AddCheckIn(checkInData, random, fails)
    \/ \E text \in StreakTexts, fails \in ImportFailures : ImportData(text, fails)
    \/ \E fails \in Failures : ClearAllData(fails)

SpecStreak == InitStreak /\ [][NextStreak]_vars

(***************************************************************************)
(* The mood log and its statistics alone: entries of several moods are     *)
(* added, and the statistics are read.                                     *)
(***************************************************************************)
MaxMoodLog == 10

MoodValues == {1, 4, 5}

InitStats == Init

NextStats ==
    \/ /\ logLength(getMoodData(localStorage)) < MaxMoodLog
       /\ \E mood \in MoodValues : AddMoodEntry([mood |-> mood, notes |-> ""], "r", FALSE)
    \/ GetMoodStats

SpecStats == InitStats /\ [][NextStats]_vars

(***************************************************************************)
(* The response engine as a state machine.                                 *)
(***************************************************************************)
\* The language codes set: ones with a table, one with none.
Languages == {"en", "hi", "mr", "fr"}

\* And for the lookups, two more that name a property every object inherits.
LookupLanguages == Languages \cup {"kn", "constructor", "toString"}

\* The words the texts are made of: crisis phrases, keywords of every intent (some
\* of two intents), the words handleMoodSharing looks for, and words with no keyword
\* ("this" holds "hi"); some with capitals, one with blanks around it.
Words ==
    { "suicide", "Kill Myself", "help me", "crisis",
      "Hello", "feel", "anxious", "sad", "suicidal", "stressed", "tired", "insomnia",
      "lonely", "self-care", "cbt", "relax", "mindful", "grateful", "cope", "progress",
      "support", "help", "happy", "this", "  fine  " }

MaxWords == 2

RECURSIVE Phrases(_)
Phrases(n) ==
    IF n <= 1 THEN Words
    ELSE Phrases(n - 1) \cup {p \o " " \o w : p \in Phrases(n - 1), w \in Words}

Messages == Phrases(MaxWords)

\* The segments the lookup keys are made of, and the keys: one or two segments.
KeySegments ==
    { "greetings", "mood_neutral", "general", "farewell", "0", "3", "7",
      "length", "constructor", "toString", "name" }

LookupKeys == KeySegments \cup {a \o "." \o b : a \in KeySegments, b \in KeySegments}

SetLanguage(languageCode) ==
    /\ currentLanguage' = languageCode
    /\ UNCHANGED <<recentTopics, userMessage, response, lookup, lookupResult, inputs,
                   storeVars, appVars>>

GenerateResponse(text) ==
    /\ recentTopics' = updateContext(recentTopics, text)
    /\ inputs' = Append(inputs, text)
    /\ userMessage' = [text |-> text, language |-> currentLanguage]
    /\ response' \in generateResponse(currentLanguage, text)
    /\ UNCHANGED <<currentLanguage, lookup, lookupResult, storeVars, appVars>>

\* The first message of a session.
FirstResponse ==
    /\ recentTopics = <<>>
    /\ inputs = <<>>
    /\ \E text \in Messages : GenerateResponse(text)

GetTranslation(key) ==
    /\ lookup' = [key |-> key, language |-> currentLanguage]
    /\ lookupResult' = getTranslation(currentLanguage, key)
    /\ UNCHANGED <<currentLanguage, recentTopics, userMessage, response, inputs, storeVars,
                   appVars>>

InitChat == ChatInit /\ StoreInit /\ AppInit

NextChat ==
    \/ \E languageCode \in Languages : SetLanguage(languageCode)
    \/ FirstResponse

SpecChat == InitChat /\ [][NextChat]_vars

InitLookup == ChatInit /\ StoreInit /\ AppInit

NextLookup ==
    \/ \E languageCode \in LookupLanguages : SetLanguage(languageCode)
    \/ \E key \in LookupKeys : GetTranslation(key)

SpecLookup == InitLookup /\ [][NextLookup]_vars

(***************************************************************************)
(* Claims about the response engine.                                       *)
(***************************************************************************)
answered == response # NoResponse

hasCrisisPhrase(text) ==
    LET lower == toLowerCase(text)
    IN \E k \in 1..Len(crisisKeywords) : includes(lower, crisisKeywords[k])

matchingIntents(text) ==
    LET lower == toLowerCase(text)
    IN {i \in 1..Len(intents) :
           \E k \in 1..Len(intents[i].keywords) : includes(lower, intents[i].keywords[k])}

\* C1: whatever the language, a text whose lower-cased form holds a crisis phrase is
\* answered with the one English crisis reply (type crisis, urgent), also when it
\* holds keywords of intents.
C1_CrisisPrecedence ==
    (answered /\ hasCrisisPhrase(userMessage.text))
        => response = Reply(TextOf("code", "crisis", 0), "crisis", TRUE, <<>>)

\* A crisis reply to a text that also holds an intent's keyword, in Hindi.
C1_Witness ==
    /\ answered
    /\ response.type = "crisis"
    /\ userMessage.language = "hi"
    /\ matchingIntents(userMessage.text) # {}

\* C2: a text with no crisis phrase and keywords of two or more intents is answered by
\* the handler of the first of them in the taxonomy order, wherever the keywords stand
\* in the text; a text with no keyword gets the general reply.
C2_IntentOrder ==
    LET matching == matchingIntents(userMessage.text)
        first == CHOOSE i \in matching : \A j \in matching : i <= j
    IN (answered /\ ~hasCrisisPhrase(userMessage.text)) =>
          /\ Cardinality(matching) >= 2 =>
                response \in dispatch(intents[first].intent, userMessage.language,
                                      trim(toLowerCase(userMessage.text)))
          /\ matching = {} => response.type = "general_support"

\* The greeting reply to a text whose first keyword is one of a later intent.
C2_Witness ==
    /\ answered
    /\ userMessage.text = "tired Hello"
    /\ response.type = "greeting"

(***************************************************************************)
(* Claims about getTranslation.                                            *)
(***************************************************************************)
\* What the table of a language holds under a key: an array under a category, a
\* literal under a category and an index.
tableEntry(language, key) ==
    LET keys == split(key, "")
    IN IF language \in TableLanguages /\ keys[1] \in Categories
       THEN IF Len(keys) = 1 THEN PoolOf(language, keys[1])
            ELSE IF Len(keys) = 2 /\ isIndex(keys[2])
                    /\ indexValue(keys[2]) < poolLength(language, keys[1])
                 THEN TextOf(language, keys[1], indexValue(keys[2]))
                 ELSE Undefined
       ELSE Undefined

lookedUp == lookup.key # ""

\* C7: a key the current language lacks is answered with the English value when
\* English has it, and with the key string itself when English lacks it too.
C7_LocalizationFallback ==
    (lookedUp /\ tableEntry(lookup.language, lookup.key) = Undefined) =>
        IF tableEntry("en", lookup.key) # Undefined
        THEN lookupResult = tableEntry("en", lookup.key)
        ELSE lookupResult = KeyOf(lookup.key)

(***************************************************************************)
(* Claims about the check-in journal and the streak.                       *)
(***************************************************************************)
\* The step is a call of the named operation of DataManager: no other step leaves
\* the clock as it is, changes what DataManager keeps and ends with that name.
called(op) == outcome'.op = op /\ now' = now /\ storeVars' # storeVars

StreakState(storage) == getStreakData(storage)

dateOfDay(d) == "D" \o ToString(d)

datedToday(storage) ==
    LET checkIns == getCheckIns(storage)
    IN /\ checkIns.kind = "array"
       /\ \E i \in 1..Len(checkIns.items) : checkIns.items[i].date = toDateString(now)

\* C3, as stated: a call of addCheckIn on a day for which the journal already holds
\* a check-in leaves the streak as it was.
C3_SecondCallOfTheDay ==
    [][(called("addCheckIn") /\ ~outcome'.threw /\ datedToday(localStorage))
          => StreakState(localStorage') = StreakState(localStorage)]_vars

\* C3, amended: a call of addCheckIn while the stored lastCheckIn is today's date
\* leaves currentStreak, longestStreak and lastCheckIn as they were.
C3_SameDayIdempotence ==
    [][(called("addCheckIn") /\ StreakState(localStorage).kind = "object"
            /\ StreakState(localStorage).lastCheckIn = toDateString(now))
          => StreakState(localStorage') = StreakState(localStorage)]_vars

\* Two check-ins of the second day, at different hours, and a streak of one day.
C3_Witness ==
    LET checkIns == getCheckIns(localStorage)
    IN /\ outcome.op = "addCheckIn" /\ ~outcome.threw
       /\ checkIns.kind = "array" /\ Len(checkIns.items) = 2
       /\ checkIns.items[1].date = "D1" /\ checkIns.items[2].date = "D1"
       /\ checkIns.items[1].timestamp # checkIns.items[2].timestamp
       /\ now = dayStart(1) + 12
       /\ StreakState(localStorage) = StreakOf("object", 1, 1, "D1")

\* C4, for the calls whose write of the streak is carried out: a check-in on the day
\* after lastCheckIn adds one to currentStreak, a check-in two or more days after
\* it sets currentStreak to 1, and lastCheckIn becomes today.
C4_StreakContinuity ==
    [][LET before == StreakState(localStorage)
           after == StreakState(localStorage')
           day == dayOf(now)
       IN (called("addCheckIn") /\ ~outcome'.threw /\ before.kind = "object"
               /\ after # before)
             => /\ before.lastCheckIn = dateOfDay(day - 1)
                    => after.currentStreak = before.currentStreak + 1
                /\ before.lastCheckIn \in {dateOfDay(d) : d \in 0..(day - 2)}
                    => after.currentStreak = 1
                /\ after.lastCheckIn = dateOfDay(day)]_vars

\* C10: the stored streak, when it is an object, has
\* longestStreak >= currentStreak >= 0.
C10_StreakInvariant ==
    LET streakData == StreakState(localStorage)
    IN streakData.kind = "object" =>
          /\ streakData.longestStreak >= streakData.currentStreak
          /\ streakData.currentStreak >= 0

(***************************************************************************)
(* Claims about export and import.                                         *)
(***************************************************************************)
sameCollections(a, b) ==
    /\ getChatHistory(a) = getChatHistory(b)
    /\ getMoodData(a) = getMoodData(b)
    /\ getCheckIns(a) = getCheckIns(b)
    /\ getPreferences(a) = getPreferences(b)
    /\ getStreakData(a) = getStreakData(b)

\* C5: importData of what exportAllData has just returned returns true and leaves
\* the chat history, the mood log, the check-ins, the preferences and the streak as
\* the getters gave them before.
C5_RoundTrip ==
    [][(called("importData") /\ importText' = exportAllData(localStorage, now))
          => /\ outcome'.ok
             /\ sameCollections(localStorage', localStorage)]_vars

\* A bundle exported and read back, of a storage with no chat history, a check-in
\* and a streak of one day.
C5_Witness ==
    /\ outcome.op = "importData" /\ outcome.ok
    /\ importText = exportAllData(localStorage, now)
    /\ getChatHistory(localStorage) = EmptyLog
    /\ logLength(getCheckIns(localStorage)) = 1
    /\ StreakState(localStorage).currentStreak = 1

lacking(text) ==
    \/ text.syntax \in {"invalid", "null", "scalar"}
    \/ text.syntax = "object" /\ (~text.version.has \/ ~text.exportDate.has)

\* C6: importData of a text that is no JSON, or of a value without version or
\* without exportDate, returns false and leaves the five items as they were.
C6_ImportRejection ==
    [][(called("importData") /\ lacking(importText'))
          => /\ ~outcome'.ok
             /\ localStorage' = localStorage]_vars

\* A bundle with an exportDate, logs, preferences and a streak, and no version,
\* refused; the storage holds another streak, and a check-in.
C6_Witness ==
    /\ outcome.op = "importData" /\ ~outcome.ok
    /\ importText.syntax = "object" /\ ~importText.version.has
    /\ importText.streakData.has /\ importText.checkIns.has
    /\ StreakState(localStorage) = StreakOf("object", 1, 1, "D0")
    /\ logLength(getCheckIns(localStorage)) = 1

(***************************************************************************)
(* Claims about getMoodStats.                                              *)
(***************************************************************************)
moodLog == getMoodData(localStorage).items

min(a, b) == IF a <= b THEN a ELSE b

\* C8: when the last 7 entries, or the up to 7 entries before them, are fewer than
\* 3, recentTrend is 'stable', whatever the moods.
C8_InsufficientSample ==
    LET recent == min(Len(moodLog), 7)
        previous == min(max(Len(moodLog) - 7, 0), 7)
    IN (stats.kind = "stats" /\ (recent < 3 \/ previous < 3))
          => stats.recentTrend = "stable"

\* Nine entries: two of mood 1, then seven of mood 5.
C8_Witness ==
    /\ stats.kind = "stats"
    /\ Len(moodLog) = 9
    /\ \A i \in 1..9 : moodLog[i].mood = IF i <= 2 THEN 1 ELSE 5
    /\ stats.recentTrend = "stable"

sixEntries ==
    /\ stats.kind = "stats"
    /\ Len(moodLog) = 6
    /\ sum(SubSeq(moodLog, 4, 6)) = 12
    /\ sum(SubSeq(moodLog, 1, 3)) = 9

\* C9, as stated: six entries, the last 3 of mean 4.0 and the first 3 of mean 3.0,
\* give recentTrend 'improving'.
C9_SixEntriesImproving == sixEntries => stats.recentTrend = "improving"

\* C9, amended: such six entries give recentTrend 'stable'; all six are in the
\* window of the last 7, and the window before it is empty.
C9_SixEntriesStable == sixEntries => stats.recentTrend = "stable"

C9_Witness == sixEntries /\ stats.recentTrend = "stable" /\ moodLog[1].mood = 1

(***************************************************************************)
(* Claims about what importData replaces.                                  *)
(***************************************************************************)
\* The property of a bundle that importData writes under a key.
fieldOf(text, key) ==
    CASE key = "chatHistory" -> text.chatHistory
      [] key = "moodData" -> text.moodData
      [] key = "checkIns" -> text.checkIns
      [] key = "userPreferences" -> text.preferences
      [] key = "streakData" -> text.streakData

collection(storage, key) ==
    CASE key = "chatHistory" -> getChatHistory(storage)
      [] key = "moodData" -> getMoodData(storage)
      [] key = "checkIns" -> getCheckIns(storage)
      [] key = "userPreferences" -> getPreferences(storage)
      [] key = "streakData" -> getStreakData(storage)

\* C11, as stated: after importData of a bundle with version and exportDate, each
\* collection the bundle holds reads as the bundle's value, and each collection
\* the bundle does not hold is as before.
C11_PresentReplaced ==
    [][(called("importData") /\ validBundle(importText'))
          => \A key \in storageKeys :
                IF fieldOf(importText', key).has
                THEN collection(localStorage', key) = fieldOf(importText', key).val
                ELSE localStorage'[key] = localStorage[key]]_vars

\* C11, amended: importData of such a bundle returns true; an item for which the
\* bundle holds no value, or a false one, is as before; every other item is as
\* before (its write failed) or is the bundle's value as JSON.stringify writes it,
\* with nothing of the old value in it.
C11_PartialImport ==
    [][(called("importData") /\ validBundle(importText'))
          => /\ outcome'.ok
             /\ \A key \in storageKeys :
                   LET field == fieldOf(importText', key)
                   IN IF field.has /\ isTruthy(field.val)
                      THEN \/ localStorage'[key] = Item(stringify(field.val))
                           \/ localStorage'[key] = localStorage[key]
                      ELSE localStorage'[key] = localStorage[key]]_vars

\* A bundle with an empty chat history, a check-in and a streak, and neither mood
\* log nor preferences, read into a storage with a chat message, a mood entry and
\* the dark theme: the first three are the bundle's, the other two are kept.
C11_Witness ==
    /\ outcome.op = "importData" /\ outcome.ok
    /\ importText.checkIns.has /\ importText.checkIns.val = LogOf("array", <<foreignCheckIn>>)
    /\ ~importText.moodData.has /\ ~importText.preferences.has
    /\ getChatHistory(localStorage) = EmptyLog
    /\ getCheckIns(localStorage) = LogOf("array", <<foreignCheckIn>>)
    /\ getStreakData(localStorage) = StreakOf("object", 2, 3, "D9")
    /\ logLength(getMoodData(localStorage)) = 1
    /\ getPreferences(localStorage).theme = "dark"

(***************************************************************************)
(* The pages as a state machine: the language selector, the navigation,    *)
(* the chat input with its reply timers, the new-chat button and the       *)
(* clear-all-data button.  A timer set by sendMessage fires after 1 to 3   *)
(* seconds, so of two that wait either may fire first.                     *)
(***************************************************************************)
\* MentalHealthApp.changeLanguage: setItem, then chatbot.setLanguage; a setItem
\* that throws ends the call.
ChangeLanguage(languageCode, fails) ==
    /\ appLanguage' = IF fails THEN appLanguage ELSE Item(languageCode)
    /\ currentLanguage' = IF fails THEN currentLanguage ELSE languageCode
    /\ UNCHANGED <<recentTopics, userMessage, response, lookup, lookupResult, inputs,
                   storeVars, currentSection, timers, chatInput>>

\* MentalHealthApp.switchSection: no timer is cleared, nothing is written.
SwitchSection(sectionName) ==
    /\ currentSection' = sectionName
    /\ UNCHANGED <<chatVars, storeVars, appLanguage, timers, chatInput>>

\* The text of a reply as it is stored: the literal, by its name.
literalName(v) == v.kind \o ":" \o v.lang \o "." \o v.cat \o "." \o ToString(v.idx)

welcomeMessage == "Hello! I'm here to listen and support you. How can I help today?"

\* An addUserMessage that stores a reply along with the user's record.
addUserMessageWithReply(storage, text, t, random, fails) ==
    LET stored == addChatMessage(storage, [sender |-> "user", text |-> text], t, random, fails)
    IN IF stored.threw THEN stored
       ELSE addChatMessage(stored.storage, [sender |-> "bot", text |-> welcomeMessage],
                           t, random, fails)

\* ChatInterface.addUserMessage and addBotMessage: the record goes to the store
\* with its sender.
addUserMessage(storage, text, t, random, fails) ==
    addChatMessage(storage, [sender |-> "user", text |-> text], t, random, fails)

addBotMessage(storage, text, t, random, fails) ==
    addChatMessage(storage, [sender |-> "bot", text |-> text], t, random, fails)

\* ChatInterface.sendMessage on the text typed into the chat input: a text that is
\* blank once trimmed stays in the input and nothing else happens; else the input is
\* cleared, addUserMessage stores the user's record, and the reply is left to a
\* timer.  When addChatMessage throws, no timer is set.
SendMessage(text, random, fails) ==
    LET message == trim(text)
        result == addUserMessage(localStorage, message, now, random, fails)
    IN IF message = ""
       THEN /\ chatInput' = text
            /\ UNCHANGED <<chatVars, storeVars, appLanguage, currentSection, timers>>
       ELSE /\ chatInput' = ""
            /\ localStorage' = result.storage
            /\ outcome' = OutcomeOf("addChatMessage", result.threw, ~result.threw)
            /\ importText' = NoBundle
            /\ stats' = NoStats
            /\ trend' = NoTrend
            /\ returned' = IF result.threw THEN NoRecord
                           ELSE newChatMessage([sender |-> "user", text |-> message], now, random)
            /\ timers' = IF result.threw THEN timers ELSE Append(timers, message)
            /\ UNCHANGED <<now, chatVars, appLanguage, currentSection>>

\* A timer that stays set after its callback, as one of setInterval would.
removeAtKeeping(s, i) == s

removeAt(s, i) == SubSeq(s, 1, i - 1) \o SubSeq(s, i + 1, Len(s))

\* The callback of the i-th timer: generateResponse, then addBotMessage stores the
\* reply's text.
TimerFires(i, random, fails) ==
    LET message == timers[i]
    IN /\ timers' = removeAt(timers, i)
       /\ recentTopics' = updateContext(recentTopics, message)
       /\ inputs' = Append(inputs, message)
       /\ userMessage' = [text |-> message, language |-> currentLanguage]
       /\ response' \in generateResponse(currentLanguage, message)
       /\ LET result == addBotMessage(localStorage, literalName(response'.text),
                                      now, random, fails)
          IN /\ localStorage' = result.storage
             /\ outcome' = OutcomeOf("addChatMessage", result.threw, ~result.threw)
             /\ returned' = IF result.threw THEN NoRecord
                            ELSE newChatMessage([sender |-> "bot",
                                                 text |-> literalName(response'.text)],
                                                now, random)
       /\ importText' = NoBundle
       /\ stats' = NoStats
       /\ trend' = NoTrend
       /\ UNCHANGED <<now, currentLanguage, lookup, lookupResult, appLanguage, currentSection,
                      chatInput>>

\* ChatInterface.startNewChat: clearChat, then addBotMessage of the welcome.
StartNewChat(random, fails) ==
    LET result == addBotMessage(clearChatHistory(localStorage, fails[1]), welcomeMessage,
                                now, random, fails[2])
    IN /\ localStorage' = result.storage
       /\ outcome' = OutcomeOf("startNewChat", result.threw, ~result.threw)
       /\ importText' = NoBundle
       /\ stats' = NoStats
       /\ trend' = NoTrend
       /\ returned' = IF result.threw THEN NoRecord
                      ELSE newChatMessage([sender |-> "bot", text |-> welcomeMessage], now, random)
       /\ UNCHANGED <<now, chatVars, appVars>>

MaxTimers == 2

MaxHistory == 4

MaxReplies == 2

\* Two texts with one reply each: that of handleCopingStrategies, and the crisis one.
SessionTexts == {" cope ", "suicide"}

Sections == {"chat", "mood"}

InitSession == Init

\* The chat page: messages are sent, timers fire, a new chat is started, the user
\* goes to another section and back.  The input and the new-chat button are in
\* the chat section, which is shown when it is the current one.
NextSession ==
    \/ \E sectionName \in Sections : SwitchSection(sectionName)
    \/ /\ currentSection = "chat"
       /\ Len(timers) < MaxTimers
       /\ logLength(getChatHistory(localStorage)) < MaxHistory
       /\ \E text \in SessionTexts, random \in Randoms, fails \in BOOLEAN :
              SendMessage(text, random, fails)
    \/ /\ logLength(getChatHistory(localStorage)) < MaxHistory
       /\ Len(recentTopics) < MaxReplies
       /\ \E i \in 1..Len(timers), random \in Randoms, fails \in BOOLEAN :
              TimerFires(i, random, fails)
    \/ /\ currentSection = "chat"
       /\ logLength(getChatHistory(localStorage)) < MaxHistory
       /\ \E random \in Randoms, fails \in Failures : StartNewChat(random, fails)

SpecSession == InitSession /\ [][NextSession]_vars

(***************************************************************************)
(* The settings page: the language, the theme, the clearing of all data,   *)
(* with entries added in between.                                          *)
(***************************************************************************)
SettingsLanguages == {"en", "hi"}

InitSettings == Init

NextSettings ==
    \/ \E languageCode \in SettingsLanguages, fails \in BOOLEAN :
           ChangeLanguage(languageCode, fails)
    \/ \E newPreferences \in PreferenceInputs, fails \in BOOLEAN :
           UpdatePreferences(newPreferences, fails)
    \/ /\ Len(timers) < MaxTimers
       /\ logLength(getChatHistory(localStorage)) < MaxMessages
       /\ \E text \in SessionTexts, random \in Randoms, fails \in BOOLEAN :
              SendMessage(text, random, fails)
    \/ /\ logLength(getMoodData(localStorage)) < MaxMoods
       /\ \E moodData \in MoodInputs, random \in Randoms, fails \in BOOLEAN :
              AddMoodEntry(moodData, random, fails)
    \/ /\ logLength(getCheckIns(localStorage)) < MaxCheckIns
       /\ \E checkInData \in CheckInInputs, random \in Randoms, fails \in Failures :
              AddCheckIn(checkInData, random, fails)
    \/ \E fails \in Failures : ClearAllData(fails)

SpecSettings == InitSettings /\ [][NextSettings]_vars

(***************************************************************************)
(* Claims about clearAllData.                                              *)
(***************************************************************************)
readsAsCleared(storage) ==
    /\ getChatHistory(storage) = EmptyLog
    /\ getMoodData(storage) = EmptyLog
    /\ getCheckIns(storage) = EmptyLog
    /\ getPreferences(storage) = PreferencesOf(TRUE, TRUE, "light", TRUE)
    /\ getStreakData(storage) = StreakOf("object", 0, 0, NoDate)

\* C12, as stated: after clearAllData no item the pages wrote is left in the
\* browser's storage but the re-initialised ones, and the logs read as empty,
\* the preferences and the streak as their defaults.
C12_EveryKeyErased ==
    [][called("clearAllData")
          => /\ readsAsCleared(localStorage')
             /\ ~appLanguage'.has]_vars

\* C12, amended: clearAllData removes the five items of DataManager: afterwards the
\* logs are not stored and read as empty, the preferences and the streak read as
\* their defaults (and are stored as such unless the write fails); the item
\* 'app-language' is left as it was.
C12_ClearAll ==
    [][called("clearAllData")
          => /\ readsAsCleared(localStorage')
             /\ \A key \in {"chatHistory", "moodData", "checkIns"} : ~localStorage'[key].has
             /\ \A key \in {"userPreferences", "streakData"} :
                   localStorage'[key].has
                       => localStorage'[key].val = emptyStorage[key].val
             /\ appLanguage' = appLanguage]_vars

\* All data cleared after a message was sent (its timer still waits) and Hindi was
\* chosen: the logs are gone, the language is kept.
C12_Witness ==
    /\ outcome.op = "clearAllData"
    /\ timers # <<>>
    /\ readsAsCleared(localStorage)
    /\ appLanguage = Item("hi")

(***************************************************************************)
(* The test importData makes of version and exportDate: bundles with every *)
(* pair of values for the two, read into a storage with or without a mood  *)
(* entry.                                                                  *)
(***************************************************************************)
ScalarValues ==
    { Scalar("string", ""), Scalar("string", "1.0"), Scalar("number", "0"),
      Scalar("number", "2"), Scalar("false", ""), Scalar("true", ""), Scalar("null", "") }

HeaderFields == {Absent} \cup {Item(v) : v \in ScalarValues}

\* Each with a mood log, a streak and nothing else.
ValidationTexts ==
    { Bundle("object", version, exportDate, Absent, Item(EmptyLog), Absent, Absent,
             Item(StreakOf("object", 2, 3, "D9"))) :
        version \in HeaderFields, exportDate \in HeaderFields }

InitImport == Init

NextImport ==
    \/ /\ logLength(getMoodData(localStorage)) < MaxMoods
       /\ \E moodData \in MoodInputs, random \in Randoms, fails \in BOOLEAN :
              AddMoodEntry(moodData, random, fails)
    \/ \E text \in ValidationTexts, fails \in ImportFailures : ImportData(text, fails)
    \/ \E fails \in Failures : ClearAllData(fails)

SpecImport == InitImport /\ [][NextImport]_vars

\* The values of version and exportDate that count as false.
falseValues ==
    {Scalar("string", ""), Scalar("number", "0"), Scalar("false", ""), Scalar("null", "")}

\* C13, as stated: importData returns true for every bundle that holds version and
\* exportDate, whatever their values.
C13_PresenceSuffices ==
    [][(called("importData") /\ importText'.syntax = "object"
            /\ importText'.version.has /\ importText'.exportDate.has)
          => outcome'.ok]_vars

\* C13, amended: importData returns true exactly for the bundles in which version
\* and exportDate are there with values that count as true; a bundle in which one
\* of them is missing or is "", 0, false or null is refused, and nothing is written.
C13_TrueValuesRequired ==
    [][(called("importData") /\ importText'.syntax = "object")
          => LET accepted ==
                     /\ importText'.version.has /\ importText'.version.val \notin falseValues
                     /\ importText'.exportDate.has
                     /\ importText'.exportDate.val \notin falseValues
             IN /\ outcome'.ok = accepted
                /\ ~accepted => localStorage' = localStorage]_vars

\* A bundle whose version is the empty string, refused; the mood entry stored before
\* is still there.
C13_Witness ==
    /\ outcome.op = "importData" /\ ~outcome.ok
    /\ importText.version = Item(Scalar("string", ""))
    /\ importText.exportDate = Item(Scalar("string", "1.0"))
    /\ logLength(getMoodData(localStorage)) = 1

(***************************************************************************)
(* The three logs with two records in each, over two days: records are     *)
(* added, a new chat is started, bundles are read, all data is cleared.    *)
(***************************************************************************)
MaxEntries == 2

InitLogs == Init

NextLogs ==
    \/ \E d \in 1..LastDay : Tick(dayStart(d))
    \/ /\ logLength(getChatHistory(localStorage)) < MaxEntries
       /\ \E message \in ChatMessages, random \in Randoms, fails \in BOOLEAN :
              AddChatMessage(message, random, fails)
    \/ /\ logLength(getMoodData(localStorage)) < MaxEntries
       /\ \E moodData \in MoodInputs, random \in Randoms, fails \in BOOLEAN :
              AddMoodEntry(moodData, random, fails)
    \/ /\ logLength(getCheckIns(localStorage)) < MaxEntries
       /\ \E checkInData \in CheckInInputs, random \in Randoms, fails \in Failures :
              AddCheckIn(checkInData, random, fails)
    \/ /\ logLength(getChatHistory(localStorage)) < MaxEntries
       /\ \E random \in Randoms, fails \in Failures : StartNewChat(random, fails)
    \/ \E text \in StreakTexts : ImportData(text, {})
    \/ \E fails \in Failures : ClearAllData(fails)

SpecLogs == InitLogs /\ [][NextLogs]_vars

\* The step is a call of the operation that adds to the log under the key, it
\* returns, and its write of the log is carried out; then the log is the old one
\* with the returned record after it, and the items under the other keys are as
\* they were.
appends(op, key, others) ==
    (called(op) /\ ~outcome'.threw /\ localStorage'[key] # localStorage[key])
        => /\ returned' # NoRecord
           /\ collection(localStorage', key)
                  = LogOf("array", Append(collection(localStorage, key).items, returned'))
           /\ \A other \in others : localStorage'[other] = localStorage[other]

\* C14: when its write succeeds, addChatMessage, addMoodEntry and addCheckIn each
\* put the record they return last in their own log, keep the records before it,
\* and leave the other logs and the preferences as they were; addChatMessage and
\* addMoodEntry leave the streak too.
C14_AppendContract ==
    [][/\ appends("addChatMessage", "chatHistory",
                  {"moodData", "checkIns", "userPreferences", "streakData"})
       /\ appends("addMoodEntry", "moodData",
                  {"chatHistory", "checkIns", "userPreferences", "streakData"})
       /\ appends("addCheckIn", "checkIns",
                  {"chatHistory", "moodData", "userPreferences"})]_vars

\* A second chat message stored on the second day, after the first of the first
\* day, with a mood entry and a check-in in their logs.
C14_Witness ==
    LET chatHistory == getChatHistory(localStorage)
    IN /\ outcome.op = "addChatMessage" /\ ~outcome.threw
       /\ chatHistory.kind = "array" /\ Len(chatHistory.items) = 2
       /\ chatHistory.items[1].timestamp = "T0"
       /\ chatHistory.items[2] = returned
       /\ returned.timestamp = "T24"
       /\ logLength(getMoodData(localStorage)) = 1
       /\ logLength(getCheckIns(localStorage)) = 1

(***************************************************************************)
(* Claims about the reply timers.                                          *)
(***************************************************************************)
chatLog(storage) == getChatHistory(storage).items

botRecord(text, t, random) == newChatMessage([sender |-> "bot", text |-> text], t, random)

\* The user's record of the timer set last is the last of the chat log: its reply
\* is not stored, and waits on the timer.
replyAwaited ==
    /\ timers # <<>>
    /\ getChatHistory(localStorage).kind = "array"
    /\ chatLog(localStorage) # <<>>
    /\ LET last == chatLog(localStorage)[Len(chatLog(localStorage))]
       IN last.sender = "user" /\ last.text = timers[Len(timers)]

\* C15 as stated: the reply is stored at submission, so that in no state a user's
\* message is stored with its reply unstored and waiting on the timer.
C15_StoredAtSubmission == ~replyAwaited

\* C15: a submission stores the user's record alone and sets a timer with the
\* text; the reply is generated and stored when the timer fires, from the text the
\* timer holds and in the language of that moment.
C15_StoredWhenTimerFires ==
    [][/\ (Len(timers') > Len(timers))
           => /\ timers' = Append(timers, returned'.text)
              /\ returned'.sender = "user"
              /\ \/ localStorage' = localStorage
                 \/ getChatHistory(localStorage')
                        = LogOf("array", Append(chatLog(localStorage), returned'))
       /\ (Len(timers') < Len(timers))
           => /\ \E i \in 1..Len(timers) :
                     /\ timers' = removeAt(timers, i)
                     /\ response' \in generateResponse(currentLanguage, timers[i])
              /\ \/ localStorage' = localStorage
                 \/ /\ \E random \in Randoms :
                           returned' = botRecord(literalName(response'.text), now, random)
                    /\ getChatHistory(localStorage')
                           = LogOf("array", Append(chatLog(localStorage), returned'))
       /\ (timers' = timers /\ outcome'.op # "startNewChat")
           => localStorage'.chatHistory = localStorage.chatHistory]_vars

\* The timer of the one message sent has fired: the log is the user's record and
\* the reply, and no timer waits.
C15_Witness ==
    /\ timers = <<>>
    /\ getChatHistory(localStorage).kind = "array"
    /\ Len(chatLog(localStorage)) = 2
    /\ chatLog(localStorage)[1].sender = "user" /\ chatLog(localStorage)[1].text = "cope"
    /\ chatLog(localStorage)[2] = returned
    /\ returned.sender = "bot"
    /\ response.type = "coping_strategies"

(***************************************************************************)
(* Claims about what is kept of the logs.                                  *)
(***************************************************************************)
logKeys == {"chatHistory", "moodData", "checkIns"}

\* The records of the first log are the first records of the second, as they were.
keptAsPrefix(before, after) ==
    IF before.kind = "array"
    THEN /\ after.kind = "array"
         /\ Len(before.items) <= Len(after.items)
         /\ SubSeq(after.items, 1, Len(before.items)) = before.items
    ELSE after = before

C17_NoFaultIsFatal == ~outcome.threw /\ stats # StatsThrew

(***************************************************************************)
(* Claims about the check-in and its streak.                               *)
(***************************************************************************)
\* C18: of a call of addCheckIn on a day the streak has not counted, the record
\* and the new streak are both stored or neither is: the journal and the streak
\* change together.
C18_RecordAndStreakTogether ==
    [][(/\ called("addCheckIn")
        /\ StreakState(localStorage).kind = "object"
        /\ StreakState(localStorage).lastCheckIn # toDateString(now))
          => ((localStorage'.checkIns # localStorage.checkIns)
                 <=> (localStorage'.streakData # localStorage.streakData))]_vars

(***************************************************************************)
(* Claims about replies that wait.                                         *)
(***************************************************************************)
\* The i-th timer fires in the step, and its reply is stored.
replyStored(i) ==
    /\ i \in 1..Len(timers)
    /\ timers' = removeAt(timers, i)
    /\ response' \in generateResponse(currentLanguage, timers[i])
    /\ localStorage'.chatHistory # localStorage.chatHistory

\* The user's record with the text is in the chat log.
messageStored(text) ==
    \E k \in 1..Len(chatLog(localStorage)) :
        chatLog(localStorage)[k].sender = "user" /\ chatLog(localStorage)[k].text = text

\* C19: the reply of a timer is stored directly after the user's record it
\* answers, whenever that record is in the log, also with several timers waiting.
C19_ReplyFollowsItsMessage ==
    [][\A i \in 1..MaxTimers :
           (replyStored(i) /\ messageStored(timers[i]))
               => LET last == chatLog(localStorage)[Len(chatLog(localStorage))]
                  IN last.sender = "user" /\ last.text = timers[i]]_vars

\* C20: a timer that fires when the user has left the chat section, or when the
\* last thing done was to start a new chat, stores no record and raises nothing.
C20_LeakedTimerDoesNothing ==
    [][(/\ Len(timers') < Len(timers)
        /\ (currentSection # "chat" \/ outcome.op = "startNewChat"))
          => /\ localStorage'.chatHistory = localStorage.chatHistory
             /\ ~outcome'.threw]_vars

(***************************************************************************)
(* Claims about what changes the streak.                                   *)
(***************************************************************************)
\* The step is a call of an operation of the store that is not addCheckIn.  (A
\* bundle exported and read back leaves the store as it was.)
calledOtherThanCheckIn ==
    \E op \in {"addChatMessage", "clearChatHistory", "addMoodEntry",
               "updatePreferences", "importData", "clearAllData"} : called(op)

\* C21 as stated: no operation other than addCheckIn changes the streak that is
\* read from the store.
C21_OnlyCheckInChangesStreak ==
    [][calledOtherThanCheckIn
          => StreakState(localStorage') = StreakState(localStorage)]_vars

\* C21: addChatMessage, addMoodEntry, updatePreferences and clearChatHistory
\* leave the streak as it reads; importData leaves it unless the
\* bundle is accepted and holds a true streakData, which it then writes in its
\* place; after clearAllData the streak reads as the default one.
C21_StreakFrame ==
    [][/\ (\E op \in {"addChatMessage", "clearChatHistory", "addMoodEntry",
                      "updatePreferences"} : called(op))
           => StreakState(localStorage') = StreakState(localStorage)
       /\ called("importData")
           => IF /\ validBundle(importText')
                 /\ importText'.streakData.has /\ isTruthy(importText'.streakData.val)
              THEN \/ localStorage'.streakData = Item(stringify(importText'.streakData.val))
                   \/ localStorage'.streakData = localStorage.streakData
              ELSE localStorage'.streakData = localStorage.streakData
       /\ called("clearAllData")
           => StreakState(localStorage') = defaultStreak]_vars

\* The theme is set to dark in a store whose streak counts one day.
C21_Witness ==
    /\ outcome.op = "updatePreferences"
    /\ getPreferences(localStorage).theme = "dark"
    /\ StreakState(localStorage).kind = "object"
    /\ StreakState(localStorage).currentStreak = 1
    /\ StreakState(localStorage).lastCheckIn = toDateString(now)

(***************************************************************************)
(* Claims about the language of the replies.                               *)
(***************************************************************************)
\* The intent of the text answered, as generateResponse recognizes it.
intentAnswered == recognizeIntent(trim(toLowerCase(userMessage.text)))

\* The replies to the text answered when the language is English.
repliesInEnglish ==
    dispatch(intentAnswered, "en", trim(toLowerCase(userMessage.text)))

\* C22 as stated: with an intent other than mood_sharing and the general one, the
\* reply is one of those given in English, whatever the language.
C22_EnglishButMoodAndGeneral ==
    (answered /\ ~hasCrisisPhrase(userMessage.text)
        /\ intentAnswered \notin {"mood_sharing", "general"})
        => response \in repliesInEnglish

\* C22: with an intent other than greeting, mood_sharing and the general one, the
\* reply is one of those given in English, whatever the language; the greeting is
\* taken from the table of the language.
C22_EnglishButLocalizedIntents ==
    (answered /\ ~hasCrisisPhrase(userMessage.text))
        => /\ intentAnswered \notin {"greeting", "mood_sharing", "general"}
                => response \in repliesInEnglish /\ response.text.lang = "code"
           /\ intentAnswered = "greeting"
                => response \in handleGreeting(userMessage.language)

\* A reply to a text about anxiety, in Hindi.
C22_Witness ==
    /\ answered
    /\ userMessage.language = "hi"
    /\ userMessage.text = "stressed"
    /\ response.type = "anxiety_support"
    /\ response.text.lang = "code"

(***************************************************************************)
(* Claims about handleMoodSharing.                                         *)
(***************************************************************************)
\* One of the words is in the message, as generateResponse hands it on.
holdsOneOf(words) ==
    \E w \in words : includes(trim(toLowerCase(userMessage.text)), w)

\* The pool of the reply to a message about a mood.
moodPool ==
    IF holdsOneOf({"good", "great", "happy", "excited"}) THEN "mood_positive"
    ELSE IF holdsOneOf({"bad", "sad", "terrible", "awful"}) THEN "mood_negative"
    ELSE "mood_neutral"

\* C23: the reply to a message dispatched to mood_sharing has the type
\* mood_response and is of the positive pool if the message holds good, great,
\* happy or excited, else of the negative pool if it holds bad, sad, terrible or
\* awful, else of the neutral pool; the pool is that of the selected language, or
\* the English one when the language has no table.
C23_MoodPools ==
    (answered /\ ~hasCrisisPhrase(userMessage.text) /\ intentAnswered = "mood_sharing")
        => /\ response.type = "mood_response"
           /\ response.text.kind = "text"
           /\ response.text.cat = moodPool
           /\ response.text.lang =
                  IF userMessage.language \in TableLanguages THEN userMessage.language
                  ELSE "en"

\* The positive reply to a message with a positive and a negative word.
C23_Witness ==
    /\ answered
    /\ userMessage.text = "sad happy"
    /\ response.type = "mood_response"
    /\ response.text.cat = "mood_positive"

(***************************************************************************)
(* The conversation context: generateResponse is called again and again,   *)
(* with texts of every kind, in one language or another.                   *)
(***************************************************************************)
MaxCalls == 7

\* A crisis text, one with a capital, one with blanks around it.
ContextTexts == {"suicide", "Cope", "  fine  "}

InitContext == Init

NextContext ==
    \/ \E languageCode \in SettingsLanguages : SetLanguage(languageCode)
    \/ /\ Len(inputs) < MaxCalls
       /\ \E text \in ContextTexts : GenerateResponse(text)

SpecContext == InitContext /\ [][NextContext]_vars

\* The last n elements of a sequence, or all of it when it has fewer.
lastOf(s, n) == IF Len(s) <= n THEN s ELSE SubSeq(s, Len(s) - n + 1, Len(s))

\* C24: after n calls of generateResponse recentTopics is the last min(n, 5) texts
\* handed to it, as they were handed and in call order, crisis texts included.
C24_LastFiveInputs ==
    /\ recentTopics = lastOf(inputs, 5)
    /\ Len(recentTopics) <= 5

\* Seven calls, the first two of which are forgotten; a crisis text is kept.
C24_Witness ==
    /\ Len(inputs) = 7
    /\ inputs[1] # inputs[3]
    /\ Len(recentTopics) = 5
    /\ recentTopics[1] = inputs[3]
    /\ recentTopics[5] = "suicide"
    /\ recentTopics[4] = "  fine  "

(***************************************************************************)
(* The mood log and the two trends: entries of two neighbouring moods are  *)
(* added until there are more than fourteen, and the trends are read.      *)
(***************************************************************************)
MaxTrendLog == 15

TrendValues == {3, 4}

InitTrend == Init

NextTrend ==
    \/ /\ logLength(getMoodData(localStorage)) < MaxTrendLog
       /\ \E mood \in TrendValues : AddMoodEntry([mood |-> mood, notes |-> ""], "r", FALSE)
    \/ GetMoodStats
    \/ GetMoodTrend

SpecTrend == InitTrend /\ [][NextTrend]_vars

\* Twice seven times the mean of the last 7 entries less the mean of the 7 before
\* them, of a log of 14 entries or more: the difference of the means in fourteenths.
weeksDifference ==
    LET n == Len(moodLog)
    IN 2 * (sum(SubSeq(moodLog, n - 6, n)) - sum(SubSeq(moodLog, n - 13, n - 7)))

\* C25: getMoodTrend returns insufficient_data exactly for a log of fewer than 14
\* entries; for one of 14 or more, improving when the mean of the last 7 exceeds the
\* mean of the 7 before them by more than 0.5, declining when it is below it by
\* more than 0.5, and stable otherwise.
C25_MoodTrend ==
    (trend # NoTrend)
        => /\ trend = "insufficient_data" <=> Len(moodLog) < 14
           /\ Len(moodLog) >= 14
                => trend = IF weeksDifference > 7 THEN "improving"
                           ELSE IF weeksDifference < -7 THEN "declining"
                           ELSE "stable"

\* Fifteen entries, the first left out of both weeks; the means differ by 3/7, and
\* the trend is stable.
C25_Witness ==
    /\ trend = "stable"
    /\ Len(moodLog) = 15
    /\ moodLog[1].mood = 4
    /\ weeksDifference = 6

(***************************************************************************)
(* Claims about the figures of getMoodStats.                               *)
(***************************************************************************)
moods == {moodLog[i].mood : i \in 1..Len(moodLog)}

\* Ten times the mean of the moods, rounded to the nearest whole number, halves
\* upwards: the mean to one decimal, in tenths.
meanInTenths ==
    CHOOSE a \in 0..50 :
        /\ 2 * a * Len(moodLog) <= 20 * sum(moodLog) + Len(moodLog)
        /\ 20 * sum(moodLog) + Len(moodLog) < 2 * (a + 1) * Len(moodLog)

\* C26: getMoodStats of a log with entries gives the greatest mood as best, the
\* least as worst, the mean of all moods to one decimal as average and the number
\* of entries as totalDays, entries of one day counted each; of an empty log it
\* gives 0, 0, 0, 0 and stable.
C26_MoodFigures ==
    (stats.kind = "stats")
        => IF moodLog = <<>>
           THEN stats = StatsOf(0, 0, 0, 0, "stable")
           ELSE /\ stats.best \in moods /\ \A m \in moods : m <= stats.best
                /\ stats.worst \in moods /\ \A m \in moods : m >= stats.worst
                /\ stats.average = meanInTenths
                /\ stats.totalDays = Len(moodLog)

\* Three entries of one day, of moods 4, 5 and 1: the mean is 3.3.
C26_Witness ==
    /\ stats.kind = "stats"
    /\ Len(moodLog) = 3
    /\ \A i \in 1..3 : moodLog[i].date = "D0"
    /\ stats.average = 33
    /\ stats.best = 5 /\ stats.worst = 1
    /\ stats.totalDays = 3

(***************************************************************************)
(* Claims about the two trends together.                                   *)
(***************************************************************************)
\* C28: for a mood log of which getMoodTrend gives improving, declining or stable,
\* recentTrend of getMoodStats is the same.
C28_TrendsAgree ==
    (stats.kind = "stats" /\ trend \in {"improving", "declining", "stable"})
        => stats.recentTrend = trend

\* Both read of a log of 14 entries whose second week is better by 4/7.
C28_Witness ==
    /\ stats.kind = "stats"
    /\ Len(moodLog) = 14
    /\ weeksDifference = 8
    /\ trend = "improving"
    /\ stats.recentTrend = "improving"

(***************************************************************************)
(* The journal of a fresh store: check-ins alone, every write carried out, *)
(* as the days pass.                                                       *)
(***************************************************************************)
MaxRun == 3

InitJournal == Init

NextJournal ==
    \/ \E t \in Instants : Tick(t)
    \/ /\ logLength(getCheckIns(localStorage)) < MaxRun
       /\ \E checkInData \in CheckInInputs, random \in Randoms :
              AddCheckIn(checkInData, random, <<FALSE, FALSE>>)

SpecJournal == InitJournal /\ [][NextJournal]_vars

journal == getCheckIns(localStorage).items

\* The days of which the journal holds a record.
recordedDays == {d \in 0..MaxDay : \E i \in 1..Len(journal) : journal[i].date = dateOfDay(d)}

\* The length of the run of recorded days that ends with the day.
runEndingAt(d) ==
    CHOOSE k \in 0..(d + 1) :
        /\ \A e \in (d - k + 1)..d : e \in recordedDays
        /\ (d - k) \notin recordedDays

\* C27: in a fresh store to which only addCheckIn is applied, with every write
\* carried out, after every call lastCheckIn is the date of the newest record,
\* currentStreak is the length of the run of recorded days that ends with it, and
\* longestStreak is the greatest length of a run of recorded days so far.
C27_StreakIsTheRun ==
    (outcome.op = "addCheckIn")
        => LET streakData == StreakState(localStorage)
               newest == CHOOSE d \in recordedDays : \A e \in recordedDays : e <= d
           IN /\ streakData.lastCheckIn = journal[Len(journal)].date
              /\ streakData.lastCheckIn = dateOfDay(newest)
              /\ streakData.currentStreak = runEndingAt(newest)
              /\ \E d \in recordedDays : streakData.longestStreak = runEndingAt(d)
              /\ \A d \in recordedDays : streakData.longestStreak >= runEndingAt(d)

(***************************************************************************)
(* Claims about which texts are a crisis.                                  *)
(***************************************************************************)
listedPhrases ==
    {"suicide", "kill myself", "end it all", "not worth living", "hurt myself", "self harm",
     "cutting", "overdose", "emergency", "crisis", "help me", "can't go on"}

\* C29: the reply is the crisis reply exactly when the lower-cased text holds one
\* of the twelve listed phrases; a text with 'suicidal' and none of them is
\* answered for depression or an intent before it; a text with 'help me', 'crisis'
\* or 'emergency' is a crisis, and never gets the resources reply.
C29_CrisisExactlyOnListedPhrase ==
    answered
        => LET lower == toLowerCase(userMessage.text)
               listed == \E phrase \in listedPhrases : includes(lower, phrase)
           IN /\ response.type = "crisis" <=> listed
              /\ (includes(lower, "suicidal") /\ ~listed)
                   => response.type \in {"greeting", "mood_response", "anxiety_support",
                                         "depression_support"}
              /\ (includes(lower, "help me") \/ includes(lower, "crisis")
                      \/ includes(lower, "emergency"))
                   => response.type = "crisis" /\ response.urgent
              /\ response.type = "resources_info" => ~includes(lower, "crisis")

\* 'suicidal' alone is answered for depression.
C29_Witness ==
    /\ answered
    /\ userMessage.text = "suicidal"
    /\ response.type = "depression_support"
    /\ ~response.urgent


(***************************************************************************)
(* The replies to the chat's submissions: texts, blank ones among them,    *)
(* are sent, the timers fire in any order, and a new chat is started in    *)
(* between.  The number of submissions is bounded, the firing of a timer   *)
(* is not.                                                                 *)
(***************************************************************************)
MaxSubmissions == 3

ReplyTexts == {" cope ", "suicide", "   "}

submissions == Len(inputs) + Len(timers)

InitReplies == Init

NextReplies ==
    \/ \E text \in ReplyTexts, random \in Randoms, fails \in BOOLEAN :
           /\ trim(text) = "" \/ submissions < MaxSubmissions
           /\ SendMessage(text, random, fails)
    \/ \E i \in 1..Len(timers), random \in Randoms, fails \in BOOLEAN :
           TimerFires(i, random, fails)
    \/ /\ logLength(getChatHistory(localStorage)) < MaxHistory
       /\ \E random \in Randoms, fails \in Failures : StartNewChat(random, fails)

\* The timer of setTimeout fires once its delay of one to three seconds is over:
\* a callback that is waiting is run.  The callbacks' steps are those that take a
\* timer away, and one is possible whenever a timer is set.
timerTaken == \E i \in 1..Len(timers) : timers' = removeAt(timers, i)

TimerFairness == WF_timers(timerTaken)

SpecReplies == InitReplies /\ [][NextReplies]_vars /\ TimerFairness

\* A step of a submission of a text that is not blank, of one that is, and of a
\* timer's callback.
submitted == Len(timers') = Len(timers) + 1

submittedBlank == chatInput' # chatInput /\ chatInput' # ""

fired == Len(inputs') = Len(inputs) + 1

\* What a submission and a callback do to the timers: a submission sets one, a
\* callback takes its own away, a blank text stores nothing and sets none.
oneTimerEach ==
    /\ submitted => timers' = Append(timers, returned'.text) /\ inputs' = inputs
    /\ fired => \E i \in 1..Len(timers) :
                    /\ timers' = removeAt(timers, i)
                    /\ inputs' = Append(inputs, timers[i])
    /\ submittedBlank => trim(chatInput') = "" /\ UNCHANGED <<localStorage, timers, inputs>>
    /\ submissions' \in {submissions, submissions + 1}
    /\ submissions' = submissions + 1 => submitted

oneReplyAppended ==
    /\ getChatHistory(localStorage').kind = "array"
    /\ \E random \in Randoms :
           chatLog(localStorage')
               = Append(chatLog(localStorage),
                        botRecord(literalName(response'.text), now, random))

\* Each submission is answered by a callback in the end.
everyTimerFires ==
    \A n \in 1..MaxSubmissions : (submissions >= n) ~> (Len(inputs) >= n)

\* C30, as stated: every submission of a text that is not blank sets one timer, each
\* timer fires in the end, and its callback appends exactly one bot reply to the
\* chat log, whatever was sent or started in between; a blank submission stores
\* nothing and sets no timer.
C30_OneReplyPerSubmission ==
    /\ [][oneTimerEach /\ (fired => oneReplyAppended)]_vars
    /\ everyTimerFires

\* C30, with the write of the reply: every submission of a text that is not blank
\* sets one timer, each timer fires in the end, and its callback appends exactly
\* one bot reply to the chat log when the write of the log succeeds, and leaves the
\* storage as it is when the write fails; a blank submission stores nothing and
\* sets no timer.
C30_OneReplyPerSubmissionWhenWritten ==
    /\ [][/\ oneTimerEach
          /\ fired => (oneReplyAppended \/ localStorage' = localStorage)
          /\ (\E i \in 1..Len(timers), random \in Randoms : TimerFires(i, random, FALSE))
                 => oneReplyAppended
       ]_vars
    /\ everyTimerFires

\* Every submission was answered, with a new chat started before the last reply,
\* which is the last record of the log; a blank text is in the input.
C30_Witness ==
    /\ timers = <<>>
    /\ Len(inputs) = MaxSubmissions
    /\ chatInput = "   "
    /\ getChatHistory(localStorage).kind = "array"
    /\ Len(chatLog(localStorage)) = 2
    /\ chatLog(localStorage)[1].text = welcomeMessage
    /\ chatLog(localStorage)[2] = returned
    /\ returned.sender = "bot"

====
